---- MODULE Spec2Model ----
(***************************************************************************)
(* A model of chroma-rs' ChromaClient (src/src/client.rs): the connection  *)
(* context built by ChromaClient::new, the pre-flight gate, the URL        *)
(* builders, and the eight public operations, each translated from its     *)
(* code, run against a remote service that keeps a set of collections.     *)
(*                                                                         *)
(* Strings that are parsed (URLs, collection names) are sequences of       *)
(* tokens: a literal of the source is one token, a caller-supplied name is *)
(* one token per character.  Option<T> is a sequence: <<>> is None and     *)
(* <<v>> is Some(v).  Result<T, E> is [ok |-> TRUE, v |-> _] or            *)
(* [ok |-> FALSE, e |-> _].  A HeaderMap is a set of <<name, value>>       *)
(* pairs with one pair per name.                                           *)
(***************************************************************************)
EXTENDS Integers, Sequences, FiniteSets, TLC

\* The number of calls concurrent callers start in one behaviour.
MaxCalls == 2

\* The number of calls the sequential caller makes in one behaviour.
MaxSeqCalls == 3

\* The call sites that may be inside an operation at the same time.
Slots == {"c1", "c2"}

\* Collection names the callers pass: two plain names, and one that holds a
\* character the URL syntax reserves.
Names == { <<"a">>, <<"b">>, <<"a", "?", "b">> }

\* Metadata arguments: None, or one map.
Metadatas == { <<>>, <<"m1">> }

VARIABLES
    params,     \* the ChromaClientParams the client was constructed from
    self,       \* the ChromaClient: path, headers, tenant, database
    pc,         \* per slot: "idle", "await_pre", "await_main", "done"
    args,       \* per slot: the operation called and its arguments
    sent,       \* per slot: the requests the call has put on the wire
    response,   \* per slot: what send() gave for the pre-flight and the main
                \* request (for the latter without the body, with the fault)
    result,     \* per slot: Option of the Result the call returns
    store,      \* the service's collections
    nextId,     \* the service's next collection id
    started,    \* number of calls started so far
    hist        \* the calls that returned, in order of return

vars == <<params, self, pc, args, sent, response, result, store, nextId, started, hist>>

----------------------------------------------------------------------------
\* Option and Result

None == <<>>
Some(v) == <<v>>
unwrap_or(o, d) == IF o = <<>> THEN d ELSE o[1]

Ok(v) == [ok |-> TRUE, v |-> v]
Err(e) == [ok |-> FALSE, e |-> e]

\* ChromaClientError, by the variants client.rs constructs.
RequestError == [kind |-> "RequestError", status |-> 0]
UrlParseError == [kind |-> "UrlParseError", status |-> 0]
ResponseError == [kind |-> "ResponseError", status |-> 0]
ResponseParseError == [kind |-> "ResponseParseError", status |-> 0]
PreflightError(status) == [kind |-> "PreflightError", status |-> status]
ResponseStatusError(status) == [kind |-> "ResponseStatusError", status |-> status]

----------------------------------------------------------------------------
\* HeaderMap

ACCEPT == "accept"
CONTENT_TYPE == "content-type"

HeaderInsert(h, n, v) == { p \in h : p[1] # n } \cup { <<n, v>> }
HeaderNames(h) == { p[1] : p \in h }

----------------------------------------------------------------------------
\* Construction

SettingsDefault == [tenant |-> "default_tenant", database |-> "default_database"]

ChromaClientParamsDefault ==
    [host |-> "localhost", port |-> "8000", ssl |-> FALSE,
     headers |-> None, settings |-> Some(SettingsDefault)]

\* The parameter sets clients are constructed from: the default, one with
\* every field set by the caller, and one whose host is empty, which makes
\* the origin a malformed URL prefix.
ParamsSet ==
    { ChromaClientParamsDefault,
      [host |-> "db.example", port |-> "443", ssl |-> TRUE,
       headers |-> Some({ <<"authorization", "Bearer t">>, <<ACCEPT, "text/html">> }),
       settings |-> Some([tenant |-> "t1", database |-> "d1"])],
      [host |-> "", port |-> "8000", ssl |-> FALSE,
       headers |-> None, settings |-> None] }

new(p) ==
    LET http == IF p.ssl THEN "https" ELSE "http"
        headers == HeaderInsert(unwrap_or(p.headers, {}), ACCEPT, "application/json")
        settings == unwrap_or(p.settings, SettingsDefault)
    IN [path |-> <<http, "://", p.host, ":", p.port>>,
        headers |-> headers,
        tenant |-> settings.tenant,
        database |-> settings.database]

----------------------------------------------------------------------------
\* URLs

\* format!("{}/{}", self.path, path)
Format(origin, path) == origin \o <<"/">> \o path

\* Index of the first ch in s, 0 if there is none.
IndexOf(s, ch) ==
    IF \E i \in 1..Len(s) : s[i] = ch
    THEN CHOOSE i \in 1..Len(s) : s[i] = ch /\ \A j \in 1..(i - 1) : s[j] # ch
    ELSE 0

\* Url::parse on scheme://host:port/rest: the fragment starts at the first
\* '#', the query at the first '?' before it, the path is what precedes
\* both.  An empty host is ParseError::EmptyHost.  The query is kept as a
\* sequence of pairs; the tokens of a query found in the input form one
\* pair with an empty value (the names of this model hold no '=' or '&').
UrlParse(input) ==
    LET h == IndexOf(input, "#")
        noFrag == IF h = 0 THEN input ELSE SubSeq(input, 1, h - 1)
        frag == IF h = 0 THEN None ELSE Some(SubSeq(input, h + 1, Len(input)))
        q == IndexOf(noFrag, "?")
        noQuery == IF q = 0 THEN noFrag ELSE SubSeq(noFrag, 1, q - 1)
        raw == IF q = 0 THEN <<>> ELSE SubSeq(noFrag, q + 1, Len(noFrag))
        query == IF raw = <<>> THEN <<>> ELSE << [k |-> raw, v |-> <<>>] >>
    IN IF input[3] = ""
       THEN Err(UrlParseError)
       ELSE Ok([origin |-> SubSeq(noQuery, 1, 5),
                path |-> SubSeq(noQuery, 6, Len(noQuery)),
                query |-> query,
                fragment |-> frag])

\* Url::parse_with_params: parse, then append the pairs to the query.
UrlParseWithParams(input, pairs) ==
    LET url == UrlParse(input)
    IN IF url.ok
       THEN Ok([url.v EXCEPT !.query = @ \o pairs])
       ELSE url

get_url(client, path) == UrlParse(Format(client.path, path))

get_url_with_params(client, path) ==
    UrlParseWithParams(Format(client.path, path),
                       << [k |-> <<"tenant">>, v |-> <<client.tenant>>],
                          [k |-> <<"database">>, v |-> <<client.database>>] >>)

----------------------------------------------------------------------------
\* Requests (reqwest's RequestBuilder)

Request(method, url, headers, body) ==
    [method |-> method, url |-> url, headers |-> headers, body |-> body]

\* RequestBuilder::json: sets the body, and Content-Type unless it is there.
Json(req, body) ==
    [req EXCEPT !.body = Some(body),
                !.headers = IF CONTENT_TYPE \in HeaderNames(@)
                            THEN @
                            ELSE @ \cup { <<CONTENT_TYPE, "application/json">> }]

\* CloneAndInsert without the clone: the header is inserted into the
\* client's own map.
InsertInPlace(headers) ==
    [local |-> HeaderInsert(headers, CONTENT_TYPE, "application/json"),
     shared |-> HeaderInsert(headers, CONTENT_TYPE, "application/json")]

\* let mut headers = self.headers.clone(); headers.insert(CONTENT_TYPE, ..):
\* the call's own map gets the header, the client's map is left as it was.
CloneAndInsert(headers) ==
    [local |-> HeaderInsert(headers, CONTENT_TYPE, "application/json"),
     shared |-> headers]

\* self.headers.clone(), passed to the request as it is.
Clone(headers) == [local |-> headers, shared |-> headers]

StatusIsSuccess(status) == 200 <= status /\ status <= 299

----------------------------------------------------------------------------
\* The pre-flight gate

\* The request of check_pre_flight_status.  reqwest parses the string it is
\* given; when that fails, send() returns the error and nothing is sent.
check_pre_flight_send(client) ==
    LET url == UrlParse(Format(client.path, <<"api/v1/pre-flight-checks">>))
    IN IF url.ok
       THEN Ok(Request("GET", url.v, client.headers, None))
       ELSE Err(RequestError)

\* check_pre_flight_status without its test of the status.
check_pre_flight_status_unchecked(out) ==
    IF ~out.delivered THEN Err(RequestError) ELSE Ok(<<>>)

\* What check_pre_flight_status returns for what send() gave.
check_pre_flight_status(out) ==
    IF ~out.delivered
    THEN Err(RequestError)
    ELSE IF StatusIsSuccess(out.status)
         THEN Ok(<<>>)
         ELSE Err(PreflightError(out.status))

----------------------------------------------------------------------------
\* Response bodies and their decoding (serde_json::from_str into the type)

JsonObject(fields) == [json |-> "object", fields |-> fields]
JsonArray(items) == [json |-> "array", items |-> items]
JsonString(s) == [json |-> "string", s |-> s]
NotJson == [json |-> "invalid"]

HasFields(body, required) ==
    body.json = "object" /\ required \subseteq DOMAIN body.fields

OptField(fields, f) == IF f \in DOMAIN fields THEN fields[f] ELSE None

De_HeartbeatResponse(body) ==
    IF HasFields(body, {"nanosecond heartbeat"})
    THEN Ok([nanosecond_heartbeat |-> body.fields["nanosecond heartbeat"]])
    ELSE Err(ResponseParseError)

De_CreateCollectionResponse(body) ==
    IF HasFields(body, {"name", "id", "tenant", "database"})
    THEN Ok([name |-> body.fields.name, id |-> body.fields.id,
             metadata |-> OptField(body.fields, "metadata"),
             tenant |-> body.fields.tenant, database |-> body.fields.database])
    ELSE Err(ResponseParseError)

\* crate::collection::Collection { name, id, metadata }
De_Collection(body) ==
    IF HasFields(body, {"name", "id"})
    THEN Ok([name |-> body.fields.name, id |-> body.fields.id,
             metadata |-> OptField(body.fields, "metadata")])
    ELSE Err(ResponseParseError)

De_ListCollectionsResponse(body) ==
    IF body.json = "array"
       /\ \A i \in 1..Len(body.items) : De_Collection(JsonObject(body.items[i])).ok
    THEN Ok([i \in 1..Len(body.items) |-> De_Collection(JsonObject(body.items[i])).v])
    ELSE Err(ResponseParseError)

----------------------------------------------------------------------------
\* The operations.  Each has two halves around its await of the main
\* request: <op>_send is the code from the pre-flight's success to send(),
\* giving the request (or the error returned instead) and the client's
\* header map as the code leaves it; <op>_result is the code after send()
\* returned, giving the Result of the call.  `res` is what the transport
\* delivered: delivered (send() was Ok), status, body, and readable
\* (text() was Ok).

Built(url, h, req) ==
    IF url.ok THEN [req |-> Ok(req), headers |-> h.shared]
              ELSE [req |-> url, headers |-> h.shared]

heartbeat_send(client) ==
    LET url == get_url(client, <<"api/v1/heartbeat">>)
        h == Clone(client.headers)
    IN Built(url, h, Request("GET", url.v, h.local, None))

heartbeat_result(res) ==
    IF ~res.delivered THEN Err(RequestError)
    ELSE IF ~res.readable THEN Err(ResponseError)
    ELSE LET body_json == De_HeartbeatResponse(res.body)
         IN IF body_json.ok THEN Ok(body_json.v.nanosecond_heartbeat) ELSE body_json

create_collection_send(client, name, metadata) ==
    LET url == get_url_with_params(client, <<"api/v1/collections">>)
        h == CloneAndInsert(client.headers)
        request_body == [name |-> name, metadata |-> metadata, get_or_create |-> FALSE]
    IN Built(url, h, Json(Request("POST", url.v, h.local, None), request_body))

\* create_collection_result with the decoding unwrapped instead of mapped
\* to ResponseParseError: a body that does not decode aborts the caller.
create_collection_result_unwrap(res) ==
    IF ~res.delivered THEN Err(RequestError)
    ELSE IF ~res.readable THEN Err(ResponseError)
    ELSE LET response_json == De_CreateCollectionResponse(res.body)
         IN IF response_json.ok
            THEN Ok([name |-> response_json.v.name, id |-> response_json.v.id,
                     metadata |-> response_json.v.metadata])
            ELSE Err([kind |-> "panic", status |-> 0])

create_collection_result(res) ==
    IF ~res.delivered THEN Err(RequestError)
    ELSE IF ~res.readable THEN Err(ResponseError)
    ELSE LET response_json == De_CreateCollectionResponse(res.body)
         IN IF response_json.ok
            THEN Ok([name |-> response_json.v.name, id |-> response_json.v.id,
                     metadata |-> response_json.v.metadata])
            ELSE response_json

get_collection_send(client, name) ==
    LET url == get_url_with_params(client, <<"api/v1/collections/">> \o name)
        h == Clone(client.headers)
    IN Built(url, h, Request("GET", url.v, h.local, None))

get_collection_result(res) ==
    IF ~res.delivered THEN Err(RequestError)
    ELSE IF ~res.readable THEN Err(ResponseError)
    ELSE De_Collection(res.body)

\* get_or_create_collection_send with the flag of create_collection.
get_or_create_collection_send_no_flag(client, name, metadata) ==
    create_collection_send(client, name, metadata)

get_or_create_collection_send(client, name, metadata) ==
    LET url == get_url_with_params(client, <<"api/v1/collections">>)
        h == CloneAndInsert(client.headers)
        request_body == [name |-> name, metadata |-> metadata, get_or_create |-> TRUE]
    IN Built(url, h, Json(Request("POST", url.v, h.local, None), request_body))

get_or_create_collection_result(res) ==
    IF ~res.delivered THEN Err(RequestError)
    ELSE IF ~res.readable THEN Err(ResponseError)
    ELSE LET response_json == De_CreateCollectionResponse(res.body)
         IN IF response_json.ok
            THEN Ok([name |-> response_json.v.name, id |-> response_json.v.id,
                     metadata |-> response_json.v.metadata])
            ELSE response_json

delete_collection_send(client, name) ==
    LET url == get_url_with_params(client, <<"api/v1/collections/">> \o name)
        h == CloneAndInsert(client.headers)
    IN Built(url, h, Request("DELETE", url.v, h.local, None))

delete_collection_result(res) ==
    IF ~res.delivered THEN Err(RequestError)
    ELSE IF StatusIsSuccess(res.status) THEN Ok(<<>>)
    ELSE Err(ResponseStatusError(res.status))

list_collections_send(client) ==
    LET url == get_url_with_params(client, <<"api/v1/collections">>)
        h == Clone(client.headers)
    IN Built(url, h, Request("GET", url.v, h.local, None))

list_collections_result(res) ==
    IF ~res.delivered THEN Err(RequestError)
    ELSE IF StatusIsSuccess(res.status)
         THEN IF ~res.readable THEN Err(ResponseError)
              ELSE De_ListCollectionsResponse(res.body)
         ELSE Err(ResponseStatusError(res.status))

reset_send(client) ==
    LET url == get_url(client, <<"api/v1/reset">>)
        h == Clone(client.headers)
    IN Built(url, h, Request("POST", url.v, h.local, None))

reset_result(res) ==
    IF ~res.delivered THEN Err(RequestError)
    ELSE IF StatusIsSuccess(res.status) THEN Ok(<<>>)
    ELSE Err(ResponseStatusError(res.status))

version_send(client) ==
    LET url == get_url(client, <<"api/v1/version">>)
        h == Clone(client.headers)
    IN Built(url, h, Request("GET", url.v, h.local, None))

version_result(res) ==
    IF ~res.delivered THEN Err(RequestError)
    ELSE IF ~res.readable THEN Err(ResponseError)
    ELSE Ok(res.body)

\* The code of operation a.op from the pre-flight's success to send().
MainSend(client, a) ==
    CASE a.op = "heartbeat" -> heartbeat_send(client)
      [] a.op = "create_collection" -> create_collection_send(client, a.name, a.metadata)
      [] a.op = "get_collection" -> get_collection_send(client, a.name)
      [] a.op = "get_or_create_collection" ->
            get_or_create_collection_send(client, a.name, a.metadata)
      [] a.op = "delete_collection" -> delete_collection_send(client, a.name)
      [] a.op = "list_collections" -> list_collections_send(client)
      [] a.op = "reset" -> reset_send(client)
      [] a.op = "version" -> version_send(client)

\* The code of operation a.op after send() returned.
MainResult(a, res) ==
    CASE a.op = "heartbeat" -> heartbeat_result(res)
      [] a.op = "create_collection" -> create_collection_result(res)
      [] a.op = "get_collection" -> get_collection_result(res)
      [] a.op = "get_or_create_collection" -> get_or_create_collection_result(res)
      [] a.op = "delete_collection" -> delete_collection_result(res)
      [] a.op = "list_collections" -> list_collections_result(res)
      [] a.op = "reset" -> reset_result(res)
      [] a.op = "version" -> version_result(res)

----------------------------------------------------------------------------
\* The remote service: the REST contract the client is written against.

QueryValue(url, key) ==
    LET hits == { i \in 1..Len(url.query) : url.query[i].k = <<key>> }
    IN IF hits = {} THEN <<>> ELSE url.query[CHOOSE i \in hits : TRUE].v

CollectionJson(col, url) ==
    [name |-> col.name, id |-> col.id, metadata |-> col.metadata,
     tenant |-> QueryValue(url, "tenant"), database |-> QueryValue(url, "database")]

ErrorBody == JsonObject([error |-> "error"])

Reply(status, body, st, nid) ==
    [status |-> status, body |-> body, store |-> st, nextId |-> nid]

Existing(st, name) == { col \in st : col.name = name }

CollectionsRoot == <<"/", "api/v1/collections">>
CollectionsPrefix == <<"/", "api/v1/collections/">>

\* The service's answer to a request, and its collections afterwards.
ServiceRespond(req, st, nid) ==
    LET url == req.url
        path == url.path
    IN CASE req.method = "GET" /\ path = <<"/", "api/v1/heartbeat">> ->
              Reply(200, JsonObject("nanosecond heartbeat" :> 1), st, nid)
         [] req.method = "GET" /\ path = <<"/", "api/v1/version">> ->
              Reply(200, JsonString("0.4.24"), st, nid)
         [] req.method = "POST" /\ path = <<"/", "api/v1/reset">> ->
              Reply(200, JsonString("true"), {}, nid)
         [] req.method = "POST" /\ path = CollectionsRoot ->
              LET b == req.body[1]
                  old == Existing(st, b.name)
                  col == [name |-> b.name, id |-> nid, metadata |-> b.metadata]
              IN IF old = {}
                 THEN Reply(200, JsonObject(CollectionJson(col, url)), st \cup {col}, nid + 1)
                 ELSE IF b.get_or_create
                      THEN Reply(200, JsonObject(CollectionJson(CHOOSE c \in old : TRUE, url)),
                                 st, nid)
                      ELSE Reply(409, ErrorBody, st, nid)
         [] req.method = "GET" /\ path = CollectionsRoot ->
              LET Sorted == CHOOSE f \in [1..Cardinality(st) -> st] :
                              \A i, j \in 1..Cardinality(st) : i < j => f[i].id < f[j].id
              IN Reply(200, JsonArray([i \in 1..Cardinality(st) |->
                                          CollectionJson(Sorted[i], url)]), st, nid)
         [] req.method \in {"GET", "DELETE"} /\ Len(path) > 2
               /\ SubSeq(path, 1, 2) = CollectionsPrefix ->
              LET old == Existing(st, SubSeq(path, 3, Len(path)))
              IN IF old = {}
                 THEN Reply(404, ErrorBody, st, nid)
                 ELSE IF req.method = "GET"
                      THEN Reply(200, JsonObject(CollectionJson(CHOOSE c \in old : TRUE, url)),
                                 st, nid)
                      ELSE Reply(200, JsonString("null"), st \ old, nid)
         [] OTHER -> Reply(404, ErrorBody, st, nid)

\* What the transport can hand back for the pre-flight request: no response
\* (connection refused, timeout), a success status, a non-success status.
PreOutcomes ==
    { [delivered |-> FALSE, status |-> 0],
      [delivered |-> TRUE, status |-> 200],
      [delivered |-> TRUE, status |-> 503] }

\* What can happen to the main request: served by the contract; no
\* response; refused with a server-error status; answered with a JSON object
\* that lacks the fields the operation decodes; served, but the body cannot
\* be read to its end.
MainFaults == { "none", "transport", "status", "missing_field", "read" }

Delivered(status, body, readable) ==
    [delivered |-> TRUE, status |-> status, body |-> body, readable |-> readable]

----------------------------------------------------------------------------
\* State machine

IdleArgs == [op |-> "none", name |-> <<>>, metadata |-> None]
NoResponse == [pre |-> None, main |-> None]

Init ==
    /\ params \in ParamsSet
    /\ self = new(params)
    /\ pc = [c \in Slots |-> "idle"]
    /\ args = [c \in Slots |-> IdleArgs]
    /\ sent = [c \in Slots |-> <<>>]
    /\ response = [c \in Slots |-> NoResponse]
    /\ result = [c \in Slots |-> None]
    /\ store = {}
    /\ nextId = 1
    /\ started = 0
    /\ hist = <<>>

\* A caller enters operation a: the code up to the await of the pre-flight
\* request's send().
Call(c, a, limit) ==
    /\ pc[c] = "idle"
    /\ started < limit
    /\ started' = started + 1
    /\ args' = [args EXCEPT ![c] = a]
    /\ LET pre == check_pre_flight_send(self)
       IN IF pre.ok
          THEN /\ sent' = [sent EXCEPT ![c] = <<pre.v>>]
               /\ pc' = [pc EXCEPT ![c] = "await_pre"]
               /\ result' = result
          ELSE /\ sent' = sent
               /\ pc' = [pc EXCEPT ![c] = "done"]
               /\ result' = [result EXCEPT ![c] = Some(pre)]
    /\ UNCHANGED <<params, self, response, store, nextId, hist>>

Heartbeat(c, limit) ==
    Call(c, [op |-> "heartbeat", name |-> <<>>, metadata |-> None], limit)
CreateCollection(c, limit, metas) ==
    \E n \in Names, m \in metas :
        Call(c, [op |-> "create_collection", name |-> n, metadata |-> m], limit)
GetCollection(c, limit) ==
    \E n \in Names :
        Call(c, [op |-> "get_collection", name |-> n, metadata |-> None], limit)
GetOrCreateCollection(c, limit, metas) ==
    \E n \in Names, m \in metas :
        Call(c, [op |-> "get_or_create_collection", name |-> n, metadata |-> m], limit)
DeleteCollection(c, limit) ==
    \E n \in Names :
        Call(c, [op |-> "delete_collection", name |-> n, metadata |-> None], limit)
ListCollections(c, limit) ==
    Call(c, [op |-> "list_collections", name |-> <<>>, metadata |-> None], limit)
Reset(c, limit) ==
    Call(c, [op |-> "reset", name |-> <<>>, metadata |-> None], limit)
Version(c, limit) ==
    Call(c, [op |-> "version", name |-> <<>>, metadata |-> None], limit)

\* The pre-flight request's send() returns `out`: the rest of
\* check_pre_flight_status, and on its success the operation's code up to
\* the await of the main request's send().
PreflightReturns(c, outs) ==
    /\ pc[c] = "await_pre"
    /\ \E out \in outs :
        LET gate == check_pre_flight_status(out)
            m == MainSend(self, args[c])
        IN /\ response' = [response EXCEPT ![c].pre = Some(out)]
           /\ IF ~gate.ok
              THEN /\ result' = [result EXCEPT ![c] = Some(gate)]
                   /\ pc' = [pc EXCEPT ![c] = "done"]
                   /\ UNCHANGED <<self, sent>>
              ELSE /\ self' = [self EXCEPT !.headers = m.headers]
                   /\ IF m.req.ok
                      THEN /\ sent' = [sent EXCEPT ![c] = Append(@, m.req.v)]
                           /\ pc' = [pc EXCEPT ![c] = "await_main"]
                           /\ result' = result
                      ELSE /\ sent' = sent
                           /\ pc' = [pc EXCEPT ![c] = "done"]
                           /\ result' = [result EXCEPT ![c] = Some(m.req)]
    /\ UNCHANGED <<params, args, store, nextId, started, hist>>

\* The main request's send() returns: the service has served the request
\* (or a fault took its place), and the operation's code runs to its return.
MainReturns(c, faults) ==
    /\ pc[c] = "await_main"
    /\ \E fault \in faults :
        LET req == sent[c][Len(sent[c])]
            served == ServiceRespond(req, store, nextId)
            res == CASE fault = "none" -> Delivered(served.status, served.body, TRUE)
                     [] fault = "read" -> Delivered(served.status, served.body, FALSE)
                     [] fault = "status" -> Delivered(500, ErrorBody, TRUE)
                     [] fault = "missing_field" ->
                            Delivered(200, JsonObject([name |-> args[c].name]), TRUE)
                     [] fault = "transport" ->
                            [delivered |-> FALSE, status |-> 0, body |-> NotJson,
                             readable |-> FALSE]
        IN /\ response' = [response EXCEPT ![c].main =
                                Some([delivered |-> res.delivered, status |-> res.status,
                                      readable |-> res.readable, fault |-> fault])]
           /\ result' = [result EXCEPT ![c] = Some(MainResult(args[c], res))]
           /\ IF fault \in {"none", "read"}
              THEN store' = served.store /\ nextId' = served.nextId
              ELSE UNCHANGED <<store, nextId>>
    /\ pc' = [pc EXCEPT ![c] = "done"]
    /\ UNCHANGED <<params, self, args, sent, started, hist>>

\* The caller takes the Result; with `log` it notes the call in hist.
Return(c, log) ==
    /\ pc[c] = "done"
    /\ hist' = IF log
               THEN Append(hist, [op |-> args[c].op, name |-> args[c].name,
                                  result |-> result[c][1],
                                  main |-> response[c].main])
               ELSE hist
    /\ pc' = [pc EXCEPT ![c] = "idle"]
    /\ args' = [args EXCEPT ![c] = IdleArgs]
    /\ sent' = [sent EXCEPT ![c] = <<>>]
    /\ response' = [response EXCEPT ![c] = NoResponse]
    /\ result' = [result EXCEPT ![c] = None]
    /\ UNCHANGED <<params, self, store, nextId, started>>

\* Callers at every call site, any outcome of every request.
Next ==
    \E c \in Slots :
        \/ Heartbeat(c, MaxCalls)
        \/ CreateCollection(c, MaxCalls, Metadatas)
        \/ GetCollection(c, MaxCalls)
        \/ GetOrCreateCollection(c, MaxCalls, Metadatas)
        \/ DeleteCollection(c, MaxCalls)
        \/ ListCollections(c, MaxCalls)
        \/ Reset(c, MaxCalls)
        \/ Version(c, MaxCalls)
        \/ PreflightReturns(c, PreOutcomes)
        \/ MainReturns(c, MainFaults)
        \/ Return(c, FALSE)

Spec == Init /\ [][Next]_vars

\* One caller making its calls one after the other and noting each Result,
\* against a service that is reachable and serves every request.  As in the
\* tests of client.rs, it passes no metadata.
SeqCaller == "c1"
Reachable == { out \in PreOutcomes : out.delivered /\ StatusIsSuccess(out.status) }

NextSeq ==
    \/ Heartbeat(SeqCaller, MaxSeqCalls)
    \/ CreateCollection(SeqCaller, MaxSeqCalls, {None})
    \/ GetCollection(SeqCaller, MaxSeqCalls)
    \/ GetOrCreateCollection(SeqCaller, MaxSeqCalls, {None})
    \/ DeleteCollection(SeqCaller, MaxSeqCalls)
    \/ ListCollections(SeqCaller, MaxSeqCalls)
    \/ Reset(SeqCaller, MaxSeqCalls)
    \/ Version(SeqCaller, MaxSeqCalls)
    \/ PreflightReturns(SeqCaller, Reachable)
    \/ MainReturns(SeqCaller, {"none"})
    \/ Return(SeqCaller, TRUE)

SpecSeq == Init /\ [][NextSeq]_vars

----------------------------------------------------------------------------
\* Vocabulary of the properties

PreflightPath == <<"/", "api/v1/pre-flight-checks">>
IsPreflight(req) == req.method = "GET" /\ req.url.path = PreflightPath

\* The pre-flight request of slot c came back with a success status.
GateOpen(c) ==
    /\ response[c].pre # None
    /\ response[c].pre[1].delivered
    /\ StatusIsSuccess(response[c].pre[1].status)

\* The pre-flight request of slot c failed: no response, or a non-success status.
GateShut(c) == response[c].pre # None /\ ~GateOpen(c)

\* The main request of slot c got a response, with this status.
MainAnswered(c) == response[c].main # None /\ response[c].main[1].delivered
MainStatus(c) == response[c].main[1].status

Returned(c) == pc[c] = "done" /\ result[c] # None
Outcome(c) == result[c][1]

ScopedOps == { "create_collection", "get_or_create_collection", "get_collection",
               "list_collections", "delete_collection" }

\* The resource path of the scoping table, under api/v1/.
ResourcePath(a) ==
    CASE a.op = "heartbeat" -> <<"api/v1/heartbeat">>
      [] a.op = "version" -> <<"api/v1/version">>
      [] a.op = "reset" -> <<"api/v1/reset">>
      [] a.op \in {"create_collection", "get_or_create_collection", "list_collections"} ->
            <<"api/v1/collections">>
      [] a.op \in {"get_collection", "delete_collection"} ->
            <<"api/v1/collections/">> \o a.name

ScopeQuery ==
    << [k |-> <<"tenant">>, v |-> <<self.tenant>>],
       [k |-> <<"database">>, v |-> <<self.database>>] >>

----------------------------------------------------------------------------
\* C1: in every call the pre-flight GET is the first request sent; the main
\* request is sent only after the pre-flight came back with a success
\* status; when the pre-flight fails (no response, or a non-success status)
\* the call returns the gate's error and has sent nothing but the pre-flight.
C1_PreflightGatesMainRequest ==
    \A c \in Slots :
        /\ Len(sent[c]) <= 2
        /\ Len(sent[c]) >= 1 => IsPreflight(sent[c][1])
        /\ Len(sent[c]) = 2 => GateOpen(c) /\ ~IsPreflight(sent[c][2])
        /\ pc[c] = "await_main" => Len(sent[c]) = 2
        /\ GateShut(c) =>
              /\ Len(sent[c]) = 1
              /\ Returned(c)
              /\ ~Outcome(c).ok
              /\ Outcome(c).e = IF response[c].pre[1].delivered
                                THEN PreflightError(response[c].pre[1].status)
                                ELSE RequestError

\* One call stopped at a pre-flight answered 503, another went on to its
\* main request after a pre-flight answered 200.
C1_Witness ==
    \E c, d \in Slots :
        /\ GateShut(c) /\ response[c].pre[1].status = 503 /\ Returned(c)
        /\ GateOpen(d) /\ Len(sent[d]) = 2

\* C2 as stated: whenever the main request of an operation is answered with
\* a non-2xx status, the operation returns ResponseStatusError carrying it.
C2_NonSuccessIsResponseStatusError ==
    \A c \in Slots :
        (Returned(c) /\ MainAnswered(c) /\ ~StatusIsSuccess(MainStatus(c)))
            => Outcome(c) = Err(ResponseStatusError(MainStatus(c)))

\* C3 as stated: every failure of the pre-flight gate, a non-success status
\* or a transport failure, is returned as PreflightError.
C3_GateFailureIsPreflightError ==
    \A c \in Slots :
        (Returned(c) /\ GateShut(c))
            => ~Outcome(c).ok /\ Outcome(c).e.kind = "PreflightError"

\* C7 as stated: the main request of a collection operation has the query
\* tenant=<tenant>&database=<database> and nothing else, the main request of
\* heartbeat, version and reset and the pre-flight request have no query,
\* and the path is origin/api/v1/<resource path>.
C7_UrlFollowsScopingTable ==
    \A c \in Slots :
        /\ Len(sent[c]) >= 1 =>
              /\ sent[c][1].url.origin = self.path
              /\ sent[c][1].url.path = PreflightPath
              /\ sent[c][1].url.query = <<>>
        /\ Len(sent[c]) = 2 =>
              /\ sent[c][2].url.origin = self.path
              /\ sent[c][2].url.path = <<"/">> \o ResourcePath(args[c])
              /\ sent[c][2].url.query = IF args[c].op \in ScopedOps THEN ScopeQuery ELSE <<>>

\* C8 as stated: a request carries Content-Type if and only if it carries a
\* body.
C8_ContentTypeIffBody ==
    \A c \in Slots : \A i \in 1..Len(sent[c]) :
        (CONTENT_TYPE \in HeaderNames(sent[c][i].headers)) <=> (sent[c][i].body # None)

\* The kinds of the six-kind taxonomy; UrlError is the variant client.rs
\* names UrlParseError.
TaxonomyKinds ==
    { "ConfigurationError", "UrlParseError", "PreflightError", "RequestError",
      "ResponseStatusError", "ResponseParseError" }

\* The operations that decode the body into a structure, and those that
\* read the body whatever the status.
DecodingOps == { "heartbeat", "create_collection", "get_collection",
                 "get_or_create_collection", "list_collections" }
ReadingOps == { "heartbeat", "create_collection", "get_collection",
                "get_or_create_collection", "version" }

C10_ContextImmutable ==
    /\ self = new(params)
    /\ \A c \in Slots :
        /\ Len(sent[c]) >= 1 => Ok(sent[c][1]) = check_pre_flight_send(new(params))
        /\ Len(sent[c]) = 2 => Ok(sent[c][2]) = MainSend(new(params), args[c]).req

\* Two calls are awaiting their main requests at the same time: a
\* create_collection, which added Content-Type to its headers, and a
\* heartbeat, sent without it.
C10_Witness ==
    \E c, d \in Slots :
        /\ pc[c] = "await_main" /\ args[c].op = "create_collection"
        /\ CONTENT_TYPE \in HeaderNames(sent[c][2].headers)
        /\ pc[d] = "await_main" /\ args[d].op = "heartbeat"
        /\ CONTENT_TYPE \notin HeaderNames(sent[d][2].headers)

----------------------------------------------------------------------------
\* Sequences of calls (hist, under SpecSeq)

\* Call i of hist reached the service with its main request.
Served(i) == hist[i].main # None /\ hist[i].main[1].delivered
Removes(op) == op \in {"delete_collection", "reset"}

\* C4 as stated: create_collection called twice in a row with the same
\* name, the first succeeding and the service answering the second with a
\* non-success status: the second returns ResponseStatusError.
C4_SecondCreateIsResponseStatusError ==
    \A i \in 1..(Len(hist) - 1) :
        ( /\ hist[i].op = "create_collection" /\ hist[i + 1].op = "create_collection"
          /\ hist[i].name = hist[i + 1].name
          /\ Served(i) /\ hist[i].result.ok
          /\ Served(i + 1) /\ ~StatusIsSuccess(hist[i + 1].main[1].status) )
        => hist[i + 1].result = Err(ResponseStatusError(hist[i + 1].main[1].status))

\* C5 as stated: after create_collection(name) succeeded and
\* delete_collection(name) succeeded, a get_collection(name) the service
\* answers with a non-success status returns ResponseStatusError.
C5_GetAfterDeleteIsResponseStatusError ==
    \A i \in 1..(Len(hist) - 2) :
        ( /\ hist[i].op = "create_collection" /\ hist[i].result.ok
          /\ hist[i + 1].op = "delete_collection" /\ hist[i + 1].result.ok
          /\ hist[i + 2].op = "get_collection"
          /\ hist[i + 1].name = hist[i].name /\ hist[i + 2].name = hist[i].name
          /\ Served(i + 2) /\ ~StatusIsSuccess(hist[i + 2].main[1].status) )
        => hist[i + 2].result = Err(ResponseStatusError(hist[i + 2].main[1].status))

\* C6: two get_or_create_collection calls with the same name that reached
\* the service, with no delete_collection or reset between them, both
\* succeed and return a Collection of that name with the same id; and the
\* request of get_or_create_collection carries get_or_create = true and is
\* otherwise the request create_collection sends for the same arguments,
\* which carries get_or_create = false.
C6_GetOrCreateIdempotent ==
    /\ \A i, j \in 1..Len(hist) :
          ( /\ i < j
            /\ hist[i].op = "get_or_create_collection"
            /\ hist[j].op = "get_or_create_collection"
            /\ hist[i].name = hist[j].name
            /\ Served(i) /\ Served(j)
            /\ \A k \in (i + 1)..(j - 1) : ~Removes(hist[k].op) )
          => /\ hist[i].result.ok /\ hist[j].result.ok
             /\ hist[i].result.v.name = hist[i].name
             /\ hist[j].result.v.name = hist[j].name
             /\ hist[i].result.v.id = hist[j].result.v.id
    /\ \A c \in Slots :
          Len(sent[c]) = 2 =>
            LET created == create_collection_send(self, args[c].name, args[c].metadata).req.v
            IN /\ args[c].op = "get_or_create_collection" =>
                    /\ sent[c][2].body[1].get_or_create = TRUE
                    /\ created.body[1].get_or_create = FALSE
                    /\ [sent[c][2] EXCEPT !.body[1].get_or_create = FALSE] = created
               /\ args[c].op = "create_collection" =>
                    sent[c][2].body[1].get_or_create = FALSE

\* get_or_create_collection returned twice for one name, the first call
\* creating the collection, the second finding it, with a call in between.
C6_Witness ==
    /\ Len(hist) = 3
    /\ hist[1].op = "get_or_create_collection" /\ hist[3].op = "get_or_create_collection"
    /\ hist[2].op = "get_collection"
    /\ hist[1].name = <<"a", "?", "b">> /\ hist[3].name = hist[1].name
    /\ hist[1].result.ok /\ hist[3].result.ok
    /\ hist[1].result.v.id = hist[3].result.v.id

====
